---- MODULE Spec2Model ----
(***************************************************************************)
(* Model of src/app.py: the User Behavior Prediction API.                  *)
(*                                                                         *)
(* At import time the module loads two pickled artifacts (a classifier and *)
(* a scaler) into the globals `model` and `scaler`.  The handler of        *)
(* POST /predict checks the globals, parses the JSON body, encodes the     *)
(* Gender column, selects the columns of FEATURE_ORDER, scales, predicts   *)
(* and serialises the label.  Each statement of the handler is one step of *)
(* a worker; workers of the threaded development server interleave.        *)
(***************************************************************************)
EXTENDS Integers, Sequences, FiniteSets, TLC

\* ------------------------------------------------------------------ bounds
\* Worker threads handling requests at the same time (ConcSpec).
NumWorkers == 2
\* Requests received over the life of the process.
MaxRequests == 3
\* Numeric fields a request body may omit.
MaxMissing == 1

\* ------------------------------------------------------------ JSON values
Num(n) == [t |-> "num", n |-> n, s |-> <<>>]
Str(s) == [t |-> "str", n |-> 0, s |-> s]
Null == [t |-> "null", n |-> 0, s |-> <<>>]

\* Python's None for the two globals, and the shape of a loaded artifact.
None == [kind |-> "None", shift |-> 0, classes |-> 0, nanOK |-> FALSE, out |-> ""]

\* ------------------------------------------------------- module constants
MODEL_PATH == "model.pkl"
SCALER_PATH == "scaler.pkl"

FEATURE_ORDER ==
    << "App Usage Time (min/day)",
       "Screen On Time (hours/day)",
       "Battery Drain (mAh/day)",
       "Number of Apps Installed",
       "Data Usage (MB/day)",
       "Age",
       "Gender" >>

\* The messages of the handler's error bodies.
NotLoadedMsg == "Model or scaler not loaded. Check server logs."
InvalidJsonMsg == "Invalid JSON input"
MissingFeatureMsg == "Missing feature"
InvalidGenderMsg == "Invalid Gender value. Must be \"Male\" or \"Female\"."
GenericMsg == "An error occurred during prediction."

\* jsonify({'predicted_user_behavior_class': label}), status 200 by default.
OkResponse(label) ==
    [status |-> 200, key |-> "predicted_user_behavior_class", msg |-> "",
     fields |-> <<>>, label |-> label]

\* jsonify({'error': msg}), status; `fields` are the names the message cites.
ErrorResponse(status, msg, fields) ==
    [status |-> status, key |-> "error", msg |-> msg, fields |-> fields, label |-> 0]

NoResponse == [status |-> 0, key |-> "", msg |-> "", fields |-> <<>>, label |-> 0]

\* ---------------------------------------------------------------- str.lower
UpperCase == << "A", "B", "C", "D", "E", "F", "G", "H", "I", "J", "K", "L", "M",
                "N", "O", "P", "Q", "R", "S", "T", "U", "V", "W", "X", "Y", "Z" >>
LowerCase == << "a", "b", "c", "d", "e", "f", "g", "h", "i", "j", "k", "l", "m",
                "n", "o", "p", "q", "r", "s", "t", "u", "v", "w", "x", "y", "z" >>

LowerChar(c) ==
    IF \E i \in DOMAIN UpperCase : UpperCase[i] = c
    THEN LowerCase[CHOOSE i \in DOMAIN UpperCase : UpperCase[i] = c]
    ELSE c

\* A comparison that forgets to fold the case.
LowerIdentity(s) == s

Lower(s) == [i \in DOMAIN s |-> LowerChar(s[i])]

\* The lambda of line 78: x.lower() raises AttributeError on a non-string.
EncodeRaises(x) == x.t # "str"

\* A mapping with the two codes exchanged.
GenderCodeSwapped(x) ==
    IF Lower(x.s) = << "m", "a", "l", "e" >> THEN 0
    ELSE IF Lower(x.s) = << "f", "e", "m", "a", "l", "e" >> THEN 1
    ELSE -1

GenderCode(x) ==
    IF Lower(x.s) = << "m", "a", "l", "e" >> THEN 1
    ELSE IF Lower(x.s) = << "f", "e", "m", "a", "l", "e" >> THEN 0
    ELSE -1

\* ------------------------------------------------------------- DataFrame
\* A one-row frame is the sequence of its columns, [k: name, v: cell], in the
\* order pandas keeps them: the key order of the JSON object.
Columns(df) == { df[i].k : i \in DOMAIN df }
Cell(df, key) == df[CHOOSE i \in DOMAIN df : df[i].k = key].v
SetCell(df, key, v) ==
    [i \in DOMAIN df |-> IF df[i].k = key THEN [k |-> key, v |-> v] ELSE df[i]]

\* pd.DataFrame([data]): a dict gives one column per key; any other JSON
\* value gives positionally named columns, none of them called 'Gender'.
DataFrame(data) == data.pairs

\* A KeyError that lists every label asked for, not only the absent ones.
MissingColumnsListsAll(df, order) ==
    IF \E i \in DOMAIN order : order[i] \notin Columns(df) THEN order ELSE <<>>

\* The labels of `order` the frame lacks, in the order asked for, as the
\* KeyError of input_df[FEATURE_ORDER] lists them.
MissingColumns(df, order) ==
    SelectSeq(order, LAMBDA name : name \notin Columns(df))

\* A selection that takes the frame's columns as they come.
SelectByPosition(df, order) == [i \in DOMAIN order |-> df[i].v]

\* input_df[FEATURE_ORDER].values: the cells in the order asked for.
SelectColumns(df, order) == [i \in DOMAIN order |-> Cell(df, order[i])]

\* -------------------------------------------------------------- artifacts
\* The pickled objects are opaque to app.py.  A fitted scaler is a
\* deterministic per-column shift; a fitted classifier is a deterministic map
\* from the scaled vector to a label.  Both raise on cells they cannot take.
ScalerArtifacts ==
    { [kind |-> "scaler", shift |-> 1, classes |-> 0, nanOK |-> FALSE, out |-> ""] }

ModelArtifacts ==
    { [kind |-> "model", shift |-> 0, classes |-> 5, nanOK |-> FALSE, out |-> "np.int64"],
      [kind |-> "model", shift |-> 0, classes |-> 3, nanOK |-> TRUE, out |-> "np.ndarray"] }

\* What open() and pickle.load() find at a path.
FileStates(artifacts) ==
    { [state |-> "missing", obj |-> None], [state |-> "corrupt", obj |-> None] }
        \cup { [state |-> "ok", obj |-> a] : a \in artifacts }

Disks ==
    { [p \in {MODEL_PATH, SCALER_PATH} |-> IF p = MODEL_PATH THEN m ELSE s] :
        m \in FileStates(ModelArtifacts), s \in FileStates(ScalerArtifacts) }

\* Lines 31-44: either load failing leaves both globals None.
LoadArtifacts(d) ==
    IF d[MODEL_PATH].state # "ok" THEN [model |-> None, scaler |-> None]
    ELSE IF d[SCALER_PATH].state # "ok" THEN [model |-> None, scaler |-> None]
    ELSE [model |-> d[MODEL_PATH].obj, scaler |-> d[SCALER_PATH].obj]

\* A readiness check that lets every request through.
ArtifactsNeverMissing(m, s) == FALSE

\* Line 61: `not model or not scaler`.
ArtifactsMissing(m, s) == m = None \/ s = None

RECURSIVE SumCells(_)
SumCells(v) == IF v = <<>> THEN 0 ELSE Head(v).n + SumCells(Tail(v))

\* scaler.transform(values): AttributeError on None; ValueError on a cell
\* that is no number; a null cell is NaN and passes through.
Transform(s, v) ==
    IF s = None THEN [raises |-> "AttributeError", value |-> <<>>]
    ELSE IF \E i \in DOMAIN v : v[i].t = "str"
    THEN [raises |-> "ValueError", value |-> <<>>]
    ELSE [raises |-> "none",
          value |-> [i \in DOMAIN v |->
                        IF v[i].t = "null" THEN Null ELSE Num(v[i].n - s.shift)]]

\* model.predict(scaled): one label per row; NaN is refused unless the
\* classifier takes it.
Predict(m, x) ==
    IF m = None THEN [raises |-> "AttributeError", value |-> <<>>]
    ELSE IF (\E i \in DOMAIN x : x[i].t = "null") /\ ~m.nanOK
    THEN [raises |-> "ValueError", value |-> <<>>]
    ELSE [raises |-> "none",
          value |-> << [type |-> m.out, n |-> 1 + (SumCells(x) % m.classes)] >>]

\* Lines 97-103: prediction[0], .item() on a numpy scalar, then jsonify,
\* which raises TypeError on what is no native JSON value.
Normalize(prediction) ==
    LET predicted_class == prediction[1]
        native == IF predicted_class.type = "np.int64"
                  THEN [type |-> "int", n |-> predicted_class.n]
                  ELSE predicted_class
    IN  IF native.type = "int"
        THEN [raises |-> "none", response |-> OkResponse(native.n)]
        ELSE [raises |-> "TypeError", response |-> NoResponse]

\* ------------------------------------------------------------ request bodies
NoData == [type |-> "unset", pairs |-> <<>>]
NoneData == [type |-> "None", pairs |-> <<>>]

\* request.get_json(): BadRequest on a syntax error; on a body whose content
\* type is not JSON, None before Flask 2.1 and UnsupportedMediaType since.
GetJson(body, legacy) ==
    CASE body.kind = "badsyntax" -> [raises |-> "BadRequest", data |-> NoData]
      [] body.kind = "notjson" ->
            IF legacy THEN [raises |-> "none", data |-> NoneData]
            ELSE [raises |-> "UnsupportedMediaType", data |-> NoData]
      [] body.kind = "null" -> [raises |-> "none", data |-> NoneData]
      [] body.kind = "array" -> [raises |-> "none", data |-> [type |-> "list", pairs |-> body.pairs]]
      [] OTHER -> [raises |-> "none", data |-> [type |-> "dict", pairs |-> body.pairs]]

Absent == [t |-> "absent", n |-> 0, s |-> <<>>]

GenderValues ==
    { Str(<< "M", "a", "l", "e" >>), Str(<< "M", "A", "L", "E" >>),
      Str(<< "m", "a", "l", "e" >>),
      Str(<< "F", "e", "m", "a", "l", "e" >>), Str(<< "F", "E", "M", "A", "L", "E" >>),
      Str(<< "O", "t", "h", "e", "r" >>), Num(1), Null }

\* The six numeric cells of a body: two records of numbers, one with a null
\* Age, one with a string for the battery drain.
Profiles ==
    { << Num(250), Num(5), Num(1500), Num(50), Num(800), Num(28) >>,
      << Num(30), Num(1), Num(300), Num(10), Num(100), Num(61) >>,
      << Num(250), Num(5), Num(1500), Num(50), Num(800), Null >>,
      << Num(250), Num(5), Str(<< "a", "b", "c" >>), Num(50), Num(800), Num(28) >> }

NumericFields == { FEATURE_ORDER[i] : i \in 1..6 }

\* Key orders of a JSON object: as declared, and reversed.
Declared == << 1, 2, 3, 4, 5, 6, 7 >>
Reversed == << 7, 6, 5, 4, 3, 2, 1 >>
KeyOrders == { Declared, Reversed }

ObjectBody(order, gender, missing, profile) ==
    LET present == SelectSeq(order, LAMBDA i :
                        IF i = 7 THEN gender # Absent ELSE FEATURE_ORDER[i] \notin missing)
    IN  [kind |-> "object",
         pairs |-> [j \in DOMAIN present |->
                      [k |-> FEATURE_ORDER[present[j]],
                       v |-> IF present[j] = 7 THEN gender ELSE profile[present[j]]]]]

\* The example body of the interface description, with its compact keys.
CompactBody ==
    [kind |-> "object",
     pairs |-> << [k |-> "appUsageTime", v |-> Num(250)],
                  [k |-> "screenOnTime", v |-> Num(5)],
                  [k |-> "batteryDrain", v |-> Num(1500)],
                  [k |-> "appsInstalled", v |-> Num(50)],
                  [k |-> "dataUsage", v |-> Num(800)],
                  [k |-> "age", v |-> Num(28)],
                  [k |-> "gender", v |-> Str(<< "M", "a", "l", "e" >>)] >>]

OtherBodies ==
    { [kind |-> "badsyntax", pairs |-> <<>>],
      [kind |-> "notjson", pairs |-> <<>>],
      [kind |-> "null", pairs |-> <<>>],
      [kind |-> "array", pairs |-> << [k |-> "0", v |-> Num(1)], [k |-> "1", v |-> Num(2)] >>],
      CompactBody }

MissingSets == { m \in SUBSET NumericFields : Cardinality(m) <= MaxMissing }

\* Complete bodies in every key order, with every gender and profile; and
\* bodies that omit numeric fields, with every gender.
ObjectBodies ==
    { ObjectBody(o, g, {}, p) :
        o \in KeyOrders, g \in GenderValues \cup {Absent}, p \in Profiles }
      \cup { ObjectBody(Reversed, g, m,
                        << Num(250), Num(5), Num(1500), Num(50), Num(800), Num(28) >>) :
                g \in GenderValues \cup {Absent}, m \in MissingSets }

Bodies == ObjectBodies \cup OtherBodies

\* The bodies the concurrent clients send.
ConcBodies ==
    { [kind |-> "badsyntax", pairs |-> <<>>] }
      \cup { ObjectBody(o, g, {}, << Num(250), Num(5), Num(1500), Num(50), Num(800), Num(28) >>) :
                o \in KeyOrders,
                g \in { Str(<< "M", "a", "l", "e" >>), Str(<< "f", "e", "m", "a", "l", "e" >>) } }
      \cup { ObjectBody(Declared, Str(<< "O", "t", "h", "e", "r" >>), {"Age"},
                        << Num(250), Num(5), Num(1500), Num(50), Num(800), Num(28) >>) }

\* ------------------------------------------------------------------ state
VARIABLES
    disk,      \* what the two paths hold when the module is imported
    legacy,    \* TRUE when the installed Flask predates 2.1
    model,     \* the global `model`
    scaler,    \* the global `scaler`
    served,    \* requests received so far
    pc,        \* pc[w]: the statement worker w is about to run
    local      \* local[w]: the handler's locals for worker w's request

vars == << disk, legacy, model, scaler, served, pc, local >>

Workers == 1..NumWorkers

NoBody == [kind |-> "none", pairs |-> <<>>]

FreshLocals(b) ==
    [body |-> b, data |-> NoData, input_df |-> <<>>, processed_df |-> <<>>,
     scaled_features |-> <<>>, prediction |-> <<>>, exc |-> "none",
     response |-> NoResponse, sent |-> 0, transformCalls |-> 0, predictCalls |-> 0]

Init ==
    /\ disk \in Disks
    /\ legacy \in BOOLEAN
    /\ model = LoadArtifacts(disk).model
    /\ scaler = LoadArtifacts(disk).scaler
    /\ served = 0
    /\ pc = [w \in Workers |-> "idle"]
    /\ local = [w \in Workers |-> FreshLocals(NoBody)]

\* `return jsonify(...), status`: the one response of the request.
Return(w, r, l) ==
    /\ pc' = [pc EXCEPT ![w] = "done"]
    /\ local' = [local EXCEPT ![w] = [l EXCEPT !.response = r, !.sent = l.sent + 1]]

\* A handler without the try block: the exception leaves predict().
RaiseUncaught(w, e, l) ==
    /\ pc' = [pc EXCEPT ![w] = "crashed"]
    /\ local' = [local EXCEPT ![w] = [l EXCEPT !.exc = e]]

\* An exception inside the try block: control passes to line 105.
Raise(w, e, l) ==
    /\ pc' = [pc EXCEPT ![w] = "except"]
    /\ local' = [local EXCEPT ![w] = [l EXCEPT !.exc = e]]

Goto(w, next, l) ==
    /\ pc' = [pc EXCEPT ![w] = next]
    /\ local' = [local EXCEPT ![w] = l]

\* Flask hands a POST /predict with body b to a free worker.
Receive(w, b) ==
    /\ pc[w] \in {"idle", "done"}
    /\ served < MaxRequests
    /\ served' = served + 1
    /\ pc' = [pc EXCEPT ![w] = "ready"]
    /\ local' = [local EXCEPT ![w] = FreshLocals(b)]
    /\ UNCHANGED << disk, legacy, model, scaler >>

\* Lines 61-62.
CheckArtifacts(w) ==
    /\ pc[w] = "ready"
    /\ IF ArtifactsMissing(model, scaler)
       THEN Return(w, ErrorResponse(500, NotLoadedMsg, <<>>), local[w])
       ELSE Goto(w, "parse", local[w])
    /\ UNCHANGED << disk, legacy, model, scaler, served >>

\* Lines 65-70.
ParseBody(w) ==
    /\ pc[w] = "parse"
    /\ LET got == GetJson(local[w].body, legacy)
       IN  IF got.raises # "none" THEN Raise(w, got.raises, local[w])
           ELSE IF got.data = NoneData
           THEN Return(w, ErrorResponse(400, InvalidJsonMsg, <<>>),
                       [local[w] EXCEPT !.data = got.data])
           ELSE Goto(w, "gender",
                     [local[w] EXCEPT !.data = got.data, !.input_df = DataFrame(got.data)])
    /\ UNCHANGED << disk, legacy, model, scaler, served >>

\* A handler that looks for the feature columns before it looks at Gender.
CheckGenderAfterFeatures(w) ==
    /\ pc[w] = "gender"
    /\ LET missing == MissingColumns(local[w].input_df, FEATURE_ORDER)
       IN  IF missing # <<>>
           THEN Return(w, ErrorResponse(400, MissingFeatureMsg, missing), local[w])
           ELSE Goto(w, "encode", local[w])
    /\ UNCHANGED << disk, legacy, model, scaler, served >>

\* Lines 75-76.
CheckGender(w) ==
    /\ pc[w] = "gender"
    /\ IF "Gender" \notin Columns(local[w].input_df)
       THEN Return(w, ErrorResponse(400, MissingFeatureMsg, << "Gender" >>), local[w])
       ELSE Goto(w, "encode", local[w])
    /\ UNCHANGED << disk, legacy, model, scaler, served >>

\* Lines 78-80.
EncodeGender(w) ==
    /\ pc[w] = "encode"
    /\ LET x == Cell(local[w].input_df, "Gender")
       IN  IF EncodeRaises(x) THEN Raise(w, "AttributeError", local[w])
           ELSE LET l == [local[w] EXCEPT
                            !.input_df = SetCell(@, "Gender", Num(GenderCode(x)))]
                IN  IF GenderCode(x) = -1
                    THEN Return(w, ErrorResponse(400, InvalidGenderMsg, <<>>), l)
                    ELSE Goto(w, "select", l)
    /\ UNCHANGED << disk, legacy, model, scaler, served >>

\* Lines 83-86.
SelectFeatures(w) ==
    /\ pc[w] = "select"
    /\ LET missing == MissingColumns(local[w].input_df, FEATURE_ORDER)
       IN  IF missing # <<>>
           THEN Return(w, ErrorResponse(400, MissingFeatureMsg, missing), local[w])
           ELSE Goto(w, "scale",
                     [local[w] EXCEPT
                        !.processed_df = SelectColumns(local[w].input_df, FEATURE_ORDER)])
    /\ UNCHANGED << disk, legacy, model, scaler, served >>

\* Line 90.
Scale(w) ==
    /\ pc[w] = "scale"
    /\ LET out == Transform(scaler, local[w].processed_df)
           l == [local[w] EXCEPT !.transformCalls = @ + (IF scaler = None THEN 0 ELSE 1)]
       IN  IF out.raises # "none" THEN Raise(w, out.raises, l)
           ELSE Goto(w, "predict", [l EXCEPT !.scaled_features = out.value])
    /\ UNCHANGED << disk, legacy, model, scaler, served >>

\* A handler that drops the global classifier once it has used it.
ClassifyRebindsModel(w) ==
    /\ pc[w] = "predict"
    /\ LET out == Predict(model, local[w].scaled_features)
           l == [local[w] EXCEPT !.predictCalls = @ + (IF model = None THEN 0 ELSE 1)]
       IN  IF out.raises # "none" THEN Raise(w, out.raises, l)
           ELSE Goto(w, "normalize", [l EXCEPT !.prediction = out.value])
    /\ model' = None
    /\ UNCHANGED << disk, legacy, scaler, served >>

\* Line 93.
Classify(w) ==
    /\ pc[w] = "predict"
    /\ LET out == Predict(model, local[w].scaled_features)
           l == [local[w] EXCEPT !.predictCalls = @ + (IF model = None THEN 0 ELSE 1)]
       IN  IF out.raises # "none" THEN Raise(w, out.raises, l)
           ELSE Goto(w, "normalize", [l EXCEPT !.prediction = out.value])
    /\ UNCHANGED << disk, legacy, model, scaler, served >>

\* Lines 97-103.
Serialize(w) ==
    /\ pc[w] = "normalize"
    /\ LET out == Normalize(local[w].prediction)
       IN  IF out.raises # "none" THEN Raise(w, out.raises, local[w])
           ELSE Return(w, out.response, local[w])
    /\ UNCHANGED << disk, legacy, model, scaler, served >>

\* Lines 105-108.
HandleException(w) ==
    /\ pc[w] = "except"
    /\ Return(w, ErrorResponse(500, GenericMsg, <<>>), local[w])
    /\ UNCHANGED << disk, legacy, model, scaler, served >>

\* The handler predict(), one statement at a time.
predict(w) ==
    \/ CheckArtifacts(w)
    \/ ParseBody(w)
    \/ CheckGender(w)
    \/ EncodeGender(w)
    \/ SelectFeatures(w)
    \/ Scale(w)
    \/ Classify(w)
    \/ Serialize(w)
    \/ HandleException(w)

\* One request at a time: the synchronous service.
Next ==
    \/ \E b \in Bodies : Receive(1, b)
    \/ predict(1)

Spec == Init /\ [][Next]_vars

\* Requests handled by all the workers of the threaded server.
ConcNext ==
    \/ \E w \in Workers : \E b \in ConcBodies : Receive(w, b)
    \/ \E w \in Workers : predict(w)

\* No concurrent client sends a body without a JSON content type, so the
\* Flask generation is fixed.
ConcInit == Init /\ legacy = FALSE

ConcSpec == ConcInit /\ [][ConcNext]_vars

\* ------------------------------------------------------- claim vocabulary
\* Both pickles were there and loaded when the module was imported.
BothLoaded == disk[MODEL_PATH].state = "ok" /\ disk[SCALER_PATH].state = "ok"

Keys(b) == { b.pairs[i].k : i \in DOMAIN b.pairs }
ValueOf(b, key) == b.pairs[CHOOSE i \in DOMAIN b.pairs : b.pairs[i].k = key].v
IsObject(b) == b.kind = "object"

MaleSpellings ==
    { Str(<< "M", "a", "l", "e" >>), Str(<< "M", "A", "L", "E" >>), Str(<< "m", "a", "l", "e" >>) }
FemaleSpellings ==
    { Str(<< "F", "e", "m", "a", "l", "e" >>), Str(<< "F", "E", "M", "A", "L", "E" >>),
      Str(<< "f", "e", "m", "a", "l", "e" >>) }

HasGender(b) == IsObject(b) /\ "Gender" \in Keys(b)
GenderRecognized(b) == HasGender(b) /\ ValueOf(b, "Gender") \in MaleSpellings \cup FemaleSpellings
MissingNumeric(b) ==
    { "App Usage Time (min/day)", "Screen On Time (hours/day)", "Battery Drain (mAh/day)",
      "Number of Apps Installed", "Data Usage (MB/day)", "Age" } \ Keys(b)
MissingRequired(b) == MissingNumeric(b) \cup ({"Gender"} \ Keys(b))
Named(r) == { r.fields[i] : i \in DOMAIN r.fields }

Generic500 == ErrorResponse(500, GenericMsg, <<>>)
InvalidGender400 == ErrorResponse(400, InvalidGenderMsg, <<>>)
MissingGender400 == ErrorResponse(400, MissingFeatureMsg, << "Gender" >>)

\* ------------------------------------------------------------------ claims

\* C1: when the classifier or the scaler failed to load, every finished
\* request, whatever its body, has status 500 with an error body, and
\* neither scaler.transform nor model.predict has been called.
C1_LoadFailureAlways500 ==
    ~BothLoaded =>
        \A w \in Workers :
            /\ local[w].transformCalls = 0
            /\ local[w].predictCalls = 0
            /\ pc[w] = "done" =>
                  local[w].response.status = 500 /\ local[w].response.key = "error"

\* C1 witness: the classifier loaded but the scaler did not, and the second
\* request of the process, a complete and valid body, was answered.
C1_Witness ==
    /\ disk[MODEL_PATH].state = "ok"
    /\ disk[SCALER_PATH].state = "missing"
    /\ served = 2
    /\ pc[1] = "done"
    /\ GenderRecognized(local[1].body)
    /\ MissingRequired(local[1].body) = {}
    /\ local[1].response.status = 500

\* C2 as stated: with both artifacts loaded, a body that cannot be parsed
\* as JSON is answered with status 400.
C2_UnparsableYields400 ==
    BothLoaded =>
        \A w \in Workers :
            (pc[w] = "done" /\ local[w].body.kind = "badsyntax")
                => local[w].response.status = 400

\* C3 as stated: with both artifacts loaded, a Gender that is present and is
\* neither spelling of the two labels, a string or not, is answered with
\* status 400 and an error body.
C3_UnrecognizedGenderYields400 ==
    BothLoaded =>
        \A w \in Workers :
            (pc[w] = "done" /\ HasGender(local[w].body) /\ ~GenderRecognized(local[w].body))
                => local[w].response.status = 400 /\ local[w].response.key = "error"

\* C4 as stated, for objects whose Gender is absent or a string: a body
\* missing exactly one of the seven fields is answered with status 400 and a
\* message naming that field.
C4_MissingFieldAlwaysNamed ==
    BothLoaded =>
        \A w \in Workers :
            ( /\ pc[w] = "done"
              /\ IsObject(local[w].body)
              /\ Cardinality(MissingRequired(local[w].body)) = 1
              /\ HasGender(local[w].body) => ValueOf(local[w].body, "Gender").t = "str" )
                => /\ local[w].response.status = 400
                   /\ MissingRequired(local[w].body) \subseteq Named(local[w].response)

\* C4 amended: for an object missing required fields, a missing Gender is
\* answered 400 naming Gender; with a recognized Gender the answer is 400
\* naming exactly the missing numeric fields; with a Gender that is an
\* unrecognized string the invalid-gender 400 is reported instead.
C4_MissingFieldNamedInOrder ==
    BothLoaded =>
        \A w \in Workers :
            (pc[w] = "done" /\ IsObject(local[w].body) /\ MissingRequired(local[w].body) # {})
                => LET b == local[w].body
                       r == local[w].response
                   IN  /\ ~HasGender(b) => r = MissingGender400
                       /\ GenderRecognized(b) =>
                             /\ r.status = 400
                             /\ r.key = "error"
                             /\ r.msg = MissingFeatureMsg
                             /\ Named(r) = MissingNumeric(b)
                       /\ (HasGender(b) /\ ~GenderRecognized(b) /\ ValueOf(b, "Gender").t = "str")
                             => r = InvalidGender400

\* C4 witness: a body with Gender "FEMALE" and no Age was answered.
C4_Witness ==
    /\ BothLoaded
    /\ pc[1] = "done"
    /\ HasGender(local[1].body)
    /\ ValueOf(local[1].body, "Gender") = Str(<< "F", "E", "M", "A", "L", "E" >>)
    /\ MissingNumeric(local[1].body) = {"Age"}
    /\ local[1].response = ErrorResponse(400, MissingFeatureMsg, << "Age" >>)

\* C5: every spelling of "male" is encoded as 1 and every spelling of
\* "female" as 0, whatever the case of its letters, and that code is the
\* seventh cell of the vector handed to the scaler.
C5_EncodingIgnoresCase ==
    BothLoaded =>
        \A w \in Workers :
            (GenderRecognized(local[w].body) /\ pc[w] \notin {"idle", "ready", "parse", "gender", "encode"})
                => LET code == IF ValueOf(local[w].body, "Gender") \in MaleSpellings THEN 1 ELSE 0
                   IN  /\ Cell(local[w].input_df, "Gender") = Num(code)
                       /\ local[w].response # InvalidGender400
                       /\ local[w].transformCalls = 1 => local[w].processed_df[7] = Num(code)

\* C5 witness: "MALE" reached the scaler as 1.
C5_Witness ==
    /\ pc[1] = "predict"
    /\ ValueOf(local[1].body, "Gender") = Str(<< "M", "A", "L", "E" >>)
    /\ local[1].transformCalls = 1
    /\ local[1].processed_df[7] = Num(1)

\* C6: two bodies with the same key/value pairs in different key orders
\* hand the scaler the same vector, the cells in the declared feature order
\* (app usage time, screen-on time, battery drain, apps installed, data
\* usage, age, gender code), and get the same response.
C6_KeyOrderIrrelevant ==
    \A w1, w2 \in Workers :
        ( /\ IsObject(local[w1].body)
          /\ IsObject(local[w2].body)
          /\ { local[w1].body.pairs[i] : i \in DOMAIN local[w1].body.pairs }
                = { local[w2].body.pairs[i] : i \in DOMAIN local[w2].body.pairs } )
            => /\ (local[w1].transformCalls = 1 /\ local[w2].transformCalls = 1)
                    => /\ local[w1].processed_df = local[w2].processed_df
                       /\ local[w1].processed_df =
                            << ValueOf(local[w1].body, "App Usage Time (min/day)"),
                               ValueOf(local[w1].body, "Screen On Time (hours/day)"),
                               ValueOf(local[w1].body, "Battery Drain (mAh/day)"),
                               ValueOf(local[w1].body, "Number of Apps Installed"),
                               ValueOf(local[w1].body, "Data Usage (MB/day)"),
                               ValueOf(local[w1].body, "Age"),
                               Cell(local[w1].input_df, "Gender") >>
               /\ (pc[w1] = "done" /\ pc[w2] = "done")
                    => local[w1].response = local[w2].response

\* C6 witness: two workers answered 200 to the same record sent in two
\* different key orders.
C6_Witness ==
    \E w1, w2 \in Workers :
        /\ local[w1].body.pairs # local[w2].body.pairs
        /\ { local[w1].body.pairs[i] : i \in DOMAIN local[w1].body.pairs }
              = { local[w2].body.pairs[i] : i \in DOMAIN local[w2].body.pairs }
        /\ pc[w1] = "done"
        /\ pc[w2] = "done"
        /\ local[w1].response.status = 200
        /\ local[w2].response.status = 200

\* C7 as stated: with both artifacts loaded, the body with the fields
\* appUsageTime, screenOnTime, batteryDrain, appsInstalled, dataUsage, age
\* and gender is answered with status 200.
C7_CompactFieldsAccepted ==
    BothLoaded =>
        \A w \in Workers :
            (pc[w] = "done" /\ local[w].body = CompactBody) => local[w].response.status = 200

\* The bodies of the usage example of GET /: the seven keys of the feature
\* list, numbers for the six numeric ones, "Male" or "Female" for Gender.
DocumentedBody(b) ==
    /\ IsObject(b)
    /\ MissingRequired(b) = {}
    /\ \A i \in DOMAIN b.pairs : b.pairs[i].k # "Gender" => b.pairs[i].v.t = "num"
    /\ ValueOf(b, "Gender") \in { Str(<< "M", "a", "l", "e" >>), Str(<< "F", "e", "m", "a", "l", "e" >>) }

\* C7 amended: with both artifacts loaded, a body with the seven keys of the
\* feature list is accepted: the scaler is called once with the six numbers
\* in the declared order followed by the gender code (Male 1, Female 0);
\* the answer is 200 with the classifier's label, unless the scaler, the
\* classifier or the serialisation of the label raised, and then it is the
\* generic 500.
C7_DocumentedFieldsAccepted ==
    BothLoaded =>
        \A w \in Workers :
            (pc[w] = "done" /\ DocumentedBody(local[w].body))
                => LET b == local[w].body
                       l == local[w]
                   IN  /\ l.transformCalls = 1
                       /\ l.processed_df =
                            << ValueOf(b, "App Usage Time (min/day)"),
                               ValueOf(b, "Screen On Time (hours/day)"),
                               ValueOf(b, "Battery Drain (mAh/day)"),
                               ValueOf(b, "Number of Apps Installed"),
                               ValueOf(b, "Data Usage (MB/day)"),
                               ValueOf(b, "Age"),
                               Num(IF ValueOf(b, "Gender") = Str(<< "M", "a", "l", "e" >>) THEN 1 ELSE 0) >>
                       /\ IF l.exc = "none"
                          THEN /\ l.predictCalls = 1
                               /\ l.response = OkResponse(l.prediction[1].n)
                          ELSE l.response = Generic500

\* C7 witness: the example record of GET / was answered 200.
C7_Witness ==
    /\ BothLoaded
    /\ pc[1] = "done"
    /\ DocumentedBody(local[1].body)
    /\ local[1].processed_df =
          << Num(250), Num(5), Num(1500), Num(50), Num(800), Num(28), Num(1) >>
    /\ local[1].response.status = 200
    /\ local[1].response.key = "predicted_user_behavior_class"

\* C8: a request in flight can always take its next step and has sent
\* nothing yet; a finished request has sent exactly one response, which is
\* 200 with a predicted_user_behavior_class, 400 with an error or 500 with
\* an error; and when an exception was raised inside the try block the
\* response is the 500 with the fixed generic message.
C8_OneResponsePerRequest ==
    \A w \in Workers :
        /\ pc[w] \notin {"idle", "done"} => (local[w].sent = 0 /\ ENABLED predict(w))
        /\ pc[w] = "done" =>
              /\ local[w].sent = 1
              /\ \/ local[w].response.status = 200
                    /\ local[w].response.key = "predicted_user_behavior_class"
                 \/ local[w].response.status \in {400, 500}
                    /\ local[w].response.key = "error"
              /\ local[w].exc # "none" => local[w].response = Generic500
              /\ local[w].exc = "none" => local[w].response # Generic500

\* C8 witness: the label could not be serialised, the third request of the
\* process was answered with the generic 500.
C8_Witness ==
    /\ served = 3
    /\ pc[1] = "done"
    /\ local[1].exc = "TypeError"
    /\ local[1].predictCalls = 1
    /\ local[1].response = Generic500

\* C9: no step of a handler writes the global classifier or scaler, a step
\* of one worker leaves the locals and position of every other worker
\* alone, and two finished requests with the same body have the same
\* response.
C9_RequestsIndependent ==
    /\ [](\A w1, w2 \in Workers :
            (pc[w1] = "done" /\ pc[w2] = "done" /\ local[w1].body = local[w2].body)
                => local[w1].response = local[w2].response)
    /\ [][ /\ model' = model
           /\ scaler' = scaler
           /\ \A w \in Workers :
                (pc'[w] # pc[w] \/ local'[w] # local[w])
                    => \A v \in Workers \ {w} : pc'[v] = pc[v] /\ local'[v] = local[v] ]_vars

\* C9 witness: after three requests, two workers hold the answer 200 to the
\* same body.
C9_Witness ==
    \E w1, w2 \in Workers :
        /\ w1 # w2
        /\ served = 3
        /\ pc[w1] = "done"
        /\ pc[w2] = "done"
        /\ local[w1].body = local[w2].body
        /\ local[w1].response.status = 200
        /\ local[w2].response.status = 200

\* C10: the first failing check decides the response, in the order artifact
\* readiness, body parsing, presence of Gender, validity of Gender, presence
\* of the numeric fields, scaling, prediction; scaler.transform is called at
\* most once and only for a body that passed every validation, and
\* model.predict at most once and only after scaler.transform returned.
C10_FirstFailingCheckDecides ==
    \A w \in Workers :
        LET b == local[w].body
            l == local[w]
            r == local[w].response
        IN  /\ l.transformCalls \in {0, 1}
            /\ l.predictCalls \in {0, 1}
            /\ l.transformCalls = 1 =>
                  BothLoaded /\ GenderRecognized(b) /\ MissingRequired(b) = {}
            /\ l.predictCalls = 1 => (l.transformCalls = 1 /\ l.scaled_features # <<>>)
            /\ pc[w] = "done" =>
                  IF ~BothLoaded THEN r = ErrorResponse(500, NotLoadedMsg, <<>>)
                  ELSE IF b.kind \in {"badsyntax", "notjson", "null"}
                  THEN /\ r \in { ErrorResponse(400, InvalidJsonMsg, <<>>), Generic500 }
                       /\ l.input_df = <<>>
                  ELSE IF ~HasGender(b) THEN r = MissingGender400
                  ELSE IF ~GenderRecognized(b)
                  THEN /\ r = IF ValueOf(b, "Gender").t = "str" THEN InvalidGender400 ELSE Generic500
                       /\ l.processed_df = <<>>
                  ELSE IF MissingNumeric(b) # {}
                  THEN r.status = 400 /\ r.msg = MissingFeatureMsg /\ Named(r) = MissingNumeric(b)
                  ELSE IF l.scaled_features = <<>>
                  THEN r = Generic500 /\ l.predictCalls = 0
                  ELSE l.predictCalls = 1

\* C10 witness: a body with Gender "Other" and no Age was answered with the
\* invalid-gender 400.
C10_Witness ==
    /\ BothLoaded
    /\ pc[1] = "done"
    /\ HasGender(local[1].body)
    /\ ValueOf(local[1].body, "Gender") = Str(<< "O", "t", "h", "e", "r" >>)
    /\ MissingNumeric(local[1].body) = {"Age"}
    /\ local[1].response = InvalidGender400

====
